---- MODULE Spec2Model ----
(***************************************************************************)
(* Model of the investigation orchestrator:                                *)
(*   - the client-side investigation monitor                               *)
(*     (devops/lambda/investigation_monitor/index.py), one poll cycle at   *)
(*     a time, against the CloudWatch log group, the SSM watermark         *)
(*     parameter and the central event bus;                                *)
(*   - the central-side simple router                                      *)
(*     (devops/lambda/simple_routing/index.py), one event at a time,       *)
(*     against the DynamoDB table and the three notification channels.     *)
(*                                                                         *)
(* Time.  Log event timestamps are whole milliseconds (ticks of `clock').  *)
(* An ISO-8601 string (watermark, completed_at) is modelled by an integer  *)
(* number of sub-millisecond units, SubPerMs units per millisecond, so     *)
(* that the conversion of line 156 (ISO string -> epoch milliseconds,      *)
(* truncating) and that of line 176 (epoch milliseconds -> ISO string)     *)
(* are not the identity.  Comparing two such integers is comparing the     *)
(* two ISO strings as Python's max() does.                                 *)
(***************************************************************************)
EXTENDS Integers, Sequences, FiniteSets, TLC

\* ----- bounds -----------------------------------------------------------
MaxInv == 2       \* log records the external source may hold
MaxTick == 2      \* times the clock advances
SubPerMs == 2     \* sub-millisecond units per millisecond (1000 us, scaled)
OneHour == 2      \* timedelta(hours=1), in clock ticks (scaled)
MaxEventId == 2   \* investigation ids of routed events (0: no id)
MaxEvents == 2    \* events the router is invoked with
MaxItems == 4     \* items the table holds when the correlator runs
PageItems == 3    \* items one Scan call reads (1 MB of data, scaled)
OneDay == 2       \* timedelta(hours=24), in clock ticks (scaled)
MaxTokens == 2    \* pieces of a root cause text
MaxResources == 6 \* affected resources of an investigation

\* ----- program constants -------------------------------------------------
EventSizeLimit == 256000   \* line 244: the hard limit, in bytes

ResourceLimit == 5         \* line 208: affected_resources[:5]
BriefLimit == 200          \* line 213: root_cause[:200]

\* ----- monitor state ----------------------------------------------------
VARIABLES
    clock,                    \* wall clock, whole milliseconds
    logGroupExists,           \* /aws/devops-agent/investigations exists
    logEvents,                \* its records matching the filter pattern
    ssmParam,                 \* STATE_PARAMETER_NAME: <<>> absent, <<v>> stored
    published,                \* investigation ids accepted by the central bus
    pc,                       \* position of the monitor invocation
    last_processed_time,      \* handler local (line 58)
    completed_investigations, \* handler local (line 62)
    idx,                      \* loop position of line 78 (1-based)
    processed_count,          \* handler local (line 77)
    sentOk,                   \* loop positions whose format and send succeeded
    failedSend,               \* loop positions whose put_events failed
    wrote,                    \* values put_parameter stored in this cycle
    paramAtStart,             \* ssmParam when the cycle started
    query,                    \* outcome of this cycle's filter_log_events
    result                    \* how the last invocation ended

\* ----- router state -----------------------------------------------------
VARIABLES
    PAGERDUTY_SECRET_NAME,    \* TRUE iff the env var is a non-empty string
    JIRA_SECRET_NAME,         \* TRUE iff the env var is a non-empty string
    table,                    \* investigations_table: set of items
    routed,                   \* router invocations so far
    rpc,                      \* position of the router invocation
    detail,                   \* event['detail'] being routed
    calls,                    \* external calls made, in order, with outcome
    actions_taken,            \* handler local (line 63)
    rresult                   \* how the last router invocation ended

monitorVars == <<clock, logGroupExists, logEvents, ssmParam, published, pc,
                 last_processed_time, completed_investigations, idx,
                 processed_count, sentOk, failedSend, wrote, paramAtStart,
                 query, result>>
routerVars == <<PAGERDUTY_SECRET_NAME, JIRA_SECRET_NAME, table, routed, rpc,
                detail, calls, actions_taken, rresult>>
\* ----- central bus state ------------------------------------------------
VARIABLES
    busEvents,                \* events accepted by the central bus, with the
                              \* number of invocations each one triggered
    routerInbox,              \* router invocations not yet started
    correlatorInbox,          \* correlator invocations not yet started
    passes                    \* outcomes of the correlator invocations that
                              \* the bus triggered and that have finished

\* ----- correlator state -------------------------------------------------
VARIABLES
    cpc,                      \* position of the correlator invocation
    cdetail,                  \* event['detail'] of the invocation
    recent_investigations,    \* handler local (line 57): the scanned items
    response,                 \* what invoke_model answered
    analysis,                 \* handler local (line 70)
    ccalls,                   \* external calls made, in order, with outcome
    tableAtStart,             \* table when the invocation started
    cresult                   \* how the last correlator invocation ended

\* ----- a second, overlapping monitor invocation --------------------------
VARIABLES
    bpc,                      \* its position
    b_completed_investigations, \* its handler local (line 62)
    bidx,                     \* its loop position
    b_wrote                   \* values its put_parameter stored

\* ----- format_investigation_event on its own -----------------------------
VARIABLES
    f_investigation,          \* the investigation given (root cause, resources)
    f_event                   \* the summary of the event returned

VARIABLE cutoff_time          \* the correlator's cutoff of the last scan (line 92)

busVars == <<busEvents, routerInbox, correlatorInbox, passes>>
correlatorVars == <<cpc, cdetail, recent_investigations, response, analysis, ccalls,
                    tableAtStart, cresult, cutoff_time>>
raceVars == <<bpc, b_completed_investigations, bidx, b_wrote>>
formatVars == <<f_investigation, f_event>>
extraVars == <<busVars, correlatorVars, raceVars, formatVars>>
vars == <<monitorVars, routerVars, busVars, correlatorVars, raceVars,
          formatVars>>

\* ----- helpers ----------------------------------------------------------
SetMax(S) == CHOOSE x \in S : \A y \in S : y <= x

\* Message bodies of a log record, by how lines 169-181 treat them.
\* "json_nonobject" is valid JSON that is not an object (a list, a string).
Bodies == {"completed", "completed_oversized", "in_progress", "not_json",
           "json_nonobject"}

\* line 240: the serialized length of the event formatted from a record.
\* A "completed" body stands for the largest event the limit admits, a
\* "completed_oversized" body for the smallest one it rejects.
event_size(message) ==
    IF message = "completed_oversized"
    THEN EventSizeLimit + 1
    ELSE EventSizeLimit

\* line 156: int(datetime.fromisoformat(since_time).timestamp() * 1000)
IsoToMillis(iso) == iso \div SubPerMs

\* Mutant of MillisToIso: the epoch is rendered in a zone one tick behind UTC
\* (fromtimestamp where utcfromtimestamp is meant).
MillisToIso_localtime(ms) == (ms - 1) * SubPerMs

\* line 176: datetime.utcfromtimestamp(event['timestamp'] / 1000).isoformat()
MillisToIso(ms) == ms * SubPerMs

\* Mutant of get_last_processed_time: the first-run default is the current
\* time, the hour is not subtracted.
get_last_processed_time_default_now(frac) ==
    IF ssmParam # <<>>
    THEN ssmParam[1]
    ELSE clock * SubPerMs + frac

\* lines 112-120.  frac is the sub-millisecond part of utcnow().
get_last_processed_time(frac) ==
    IF ssmParam # <<>>
    THEN ssmParam[1]
    ELSE (clock - OneHour) * SubPerMs + frac

\* lines 158-162: FilterLogEvents returns the events whose timestamp is not
\* before startTime, in the order of the log.
filter_log_events(startTime) ==
    LET keep(e) == e.timestamp >= startTime
    IN  SelectSeq(logEvents, keep)

\* lines 164-187: one investigation per record whose body parses to a JSON
\* object with status COMPLETED; an unparseable body is skipped.  On a body
\* that parses to something other than an object, investigation_data.get
\* (line 170) raises AttributeError, which only line 186 catches: the loop is
\* left and what was collected before it is returned.
RECURSIVE ParseEvents(_)
ParseEvents(events) ==
    IF events = <<>> THEN <<>>
    ELSE LET e == Head(events)
             rest == ParseEvents(Tail(events))
         IN  IF e.message = "json_nonobject"
             THEN <<>>
             ELSE IF e.message \in {"completed", "completed_oversized"}
             THEN <<[investigation_id |-> e.investigation_id,
                     completed_at |-> MillisToIso(e.timestamp),
                     event_size |-> event_size(e.message)]>>
                  \o rest
             ELSE rest

\* Mutant of get_completed_investigations: the generic handler of lines
\* 186-187 re-raises.
get_completed_investigations_reraise(since_time, fault) ==
    IF ~logGroupExists
    THEN [raised |-> FALSE, investigations |-> <<>>]
    ELSE IF fault
    THEN [raised |-> TRUE, investigations |-> <<>>]
    ELSE [raised |-> FALSE,
          investigations |->
              ParseEvents(filter_log_events(IsoToMillis(since_time)))]

\* Mutant of get_completed_investigations: the handler of lines 183-185 is
\* absent and the generic one re-raises, so a missing log group raises.
get_completed_investigations_notfound_raises(since_time, fault) ==
    IF ~logGroupExists
    THEN [raised |-> TRUE, investigations |-> <<>>]
    ELSE IF fault
    THEN [raised |-> FALSE, investigations |-> <<>>]
    ELSE [raised |-> FALSE,
          investigations |->
              ParseEvents(filter_log_events(IsoToMillis(since_time)))]

\* lines 136-189.  fault: filter_log_events raises something other than
\* ResourceNotFoundException.  Both handlers (lines 183-187) swallow the
\* exception, so the function never raises.
get_completed_investigations(since_time, fault) ==
    IF ~logGroupExists
    THEN [raised |-> FALSE, investigations |-> <<>>]    \* lines 183-185
    ELSE IF fault
    THEN [raised |-> FALSE, investigations |-> <<>>]    \* lines 186-187
    ELSE [raised |-> FALSE,
          investigations |->
              ParseEvents(filter_log_events(IsoToMillis(since_time)))]

\* What the call of line 158 did, for the record.
query_outcome(fault) ==
    IF ~logGroupExists THEN "not_found"
    ELSE IF fault THEN "fault" ELSE "ok"

\* Mutant of format_raises: the check of lines 244-245 is absent.
format_raises_never(investigation) == FALSE

\* lines 239-247: the size check of format_investigation_event.
format_raises(investigation) == investigation.event_size > EventSizeLimit

\* line 93
latest_time(investigations) ==
    SetMax({investigations[k].completed_at : k \in 1..Len(investigations)})

\* ----- texts -------------------------------------------------------------
\* A root cause text is a sequence of pieces, each with its length in
\* characters: filler (no keyword, nothing sensitive), an IP address
\* ("1.2.3.4"), an email address ("a@b.com"), a secret
\* ("password=hunter2"), or a word.  Pieces end at white space, so that a
\* pattern matches inside one piece.
Piece(kind, len, word) == [kind |-> kind, len |-> len, word |-> word]

Fillers == {Piece("filler", 1, ""), Piece("filler", 193, ""),
            Piece("filler", 200, "")}
Sensitive == {Piece("ip", 7, "1.2.3.4"), Piece("email", 7, "a@b.com"),
              Piece("secret", 16, "password=hunter2")}
Words == {Piece("word", 7, "Timeout"), Piece("word", 6, "MEMORY"),
          Piece("word", 6, "denied"), Piece("word", 7, "Rollout"),
          Piece("word", 10, "downstream"), Piece("word", 12, "inaccessible"),
          Piece("word", 6, "outage")}
Pieces == Fillers \cup Sensitive \cup Words
RootCauses == UNION {[1..n -> Pieces] : n \in 0..MaxTokens}

RECURSIVE TextLen(_)
TextLen(text) ==
    IF text = <<>> THEN 0 ELSE Head(text).len + TextLen(Tail(text))

\* text[:limit].  A piece cut short is filler, unless what is left of it
\* still matches its pattern: a secret keeps its keyword, separator and one
\* character of value, an email address two letters of its last label.
Cut(piece, len) ==
    IF piece.kind = "secret" /\ len >= 10 THEN Piece("secret", len, piece.word)
    ELSE IF piece.kind = "email" /\ len >= 6 THEN Piece("email", len, piece.word)
    ELSE Piece("filler", len, "")

RECURSIVE Truncate(_, _)
Truncate(text, limit) ==
    IF text = <<>> \/ limit <= 0 THEN <<>>
    ELSE IF Head(text).len <= limit
    THEN <<Head(text)>> \o Truncate(Tail(text), limit - Head(text).len)
    ELSE <<Cut(Head(text), limit)>>

\* lines 281-292: the three substitutions.  An IP address becomes
\* REDACTED_IP (11 characters), an email address REDACTED_EMAIL (14), a
\* secret its keyword followed by ": REDACTED" (8 + 10 for password).
redact_piece(piece) ==
    IF piece.kind = "ip" THEN Piece("filler", 11, "REDACTED_IP")
    ELSE IF piece.kind = "email" THEN Piece("filler", 14, "REDACTED_EMAIL")
    ELSE IF piece.kind = "secret"
    THEN Piece("filler", 18, "password: REDACTED")
    ELSE piece

redact_sensitive_data(text) == [i \in 1..Len(text) |-> redact_piece(text[i])]

\* root_cause.lower() of line 265, on the words of the model.
Lower(word) ==
    IF word = "Timeout" THEN "timeout"
    ELSE IF word = "MEMORY" THEN "memory"
    ELSE IF word = "Rollout" THEN "rollout"
    ELSE word

\* keyword in text, on lowered words: the keywords that are substrings.
KeywordsIn(lowered) ==
    IF lowered = "inaccessible" THEN {"access"}
    ELSE IF lowered \in {"timeout", "memory", "denied", "rollout",
                         "downstream"}
    THEN {lowered}
    ELSE {}

KeywordsOf(text) ==
    UNION {KeywordsIn(Lower(text[i].word)) : i \in 1..Len(text)}

\* lines 267-275: the keyword lists, in the order of the if/elif chain.
Categories ==
    <<[category |-> "network_connectivity",
       keywords |-> {"connection", "timeout", "network"}],
      [category |-> "resource_exhaustion",
       keywords |-> {"memory", "cpu", "disk", "capacity"}],
      [category |-> "permissions_issue",
       keywords |-> {"permission", "access", "denied", "unauthorized"}],
      [category |-> "deployment_issue",
       keywords |-> {"deployment", "version", "rollout"}],
      [category |-> "dependency_failure",
       keywords |-> {"dependency", "service", "downstream"}]>>

\* Mutant of categorize_root_cause: the last matching category is taken.
categorize_root_cause_last_match(root_cause) ==
    LET found == KeywordsOf(root_cause)
        hits == {i \in 1..Len(Categories) :
                    Categories[i].keywords \cap found # {}}
    IN  IF hits = {} THEN "unknown"
        ELSE Categories[CHOOSE i \in hits : \A j \in hits : j <= i].category

\* lines 263-278
categorize_root_cause(root_cause) ==
    LET found == KeywordsOf(root_cause)
        hits == {i \in 1..Len(Categories) :
                    Categories[i].keywords \cap found # {}}
    IN  IF hits = {} THEN "unknown"
        ELSE Categories[CHOOSE i \in hits : \A j \in hits : i <= j].category

\* ----- resources ---------------------------------------------------------
\* An affected resource: whether it is a string, and its colon-separated
\* segments (resource.split(':')).
Resource(is_str, parts) == [is_str |-> is_str, parts |-> parts]

Resources ==
    {Resource(TRUE, <<"arn", "aws", "lambda", "us-east-1", "111122223333",
                      "function", "foo">>),
     Resource(TRUE, <<"arn", "aws", "s3", "", "", "bucket">>),
     Resource(TRUE, <<"arn", "aws", "sns", "us-east-1", "111122223333">>),
     Resource(TRUE, <<"urn", "aws", "ec2", "us-east-1", "111122223333",
                      "instance">>),
     Resource(FALSE, <<>>)}

ResourceLists == UNION {[1..n -> Resources] : n \in 0..MaxResources}

\* service.upper() of line 259
Upper(service) ==
    IF service = "lambda" THEN "LAMBDA"
    ELSE IF service = "s3" THEN "S3"
    ELSE IF service = "sns" THEN "SNS"
    ELSE IF service = "ec2" THEN "EC2"
    ELSE service

\* Mutant of extract_resource_types: the length check of line 257 asks for
\* 3 segments.
extract_resource_types_three_segments(resources) ==
    {Upper(resources[i].parts[3]) :
        i \in {j \in 1..Len(resources) :
                  /\ resources[j].is_str
                  /\ Len(resources[j].parts) >= 3
                  /\ resources[j].parts[1] = "arn"}}

\* lines 250-260
extract_resource_types(resources) ==
    {Upper(resources[i].parts[3]) :
        i \in {j \in 1..Len(resources) :
                  /\ resources[j].is_str
                  /\ Len(resources[j].parts) >= 2
                  /\ resources[j].parts[1] = "arn"
                  /\ Len(resources[j].parts) >= 6}}

\* Mutant of first_resources: the last entries are kept.
first_resources_last(resources) ==
    IF Len(resources) <= ResourceLimit THEN resources
    ELSE SubSeq(resources, Len(resources) - ResourceLimit + 1, Len(resources))

\* line 208: investigation.get('affected_resources', [])[:5]
first_resources(resources) ==
    IF Len(resources) <= ResourceLimit THEN resources
    ELSE SubSeq(resources, 1, ResourceLimit)

\* ----- format_investigation_event -----------------------------------------
NoInvestigation == [root_cause |-> <<>>, affected_resources |-> <<>>]
NoEvent == [formatted |-> FALSE,
            affected_resources |-> <<>>,
            resource_types |-> {},
            root_cause_category |-> "unknown",
            root_cause_brief |-> <<>>]

\* lines 206-216: the summary of the event.
summary(investigation) ==
    [formatted |-> TRUE,
     affected_resources |-> first_resources(investigation.affected_resources),
     resource_types |-> extract_resource_types(investigation.affected_resources),
     root_cause_category |-> categorize_root_cause(investigation.root_cause),
     root_cause_brief |->
         redact_sensitive_data(Truncate(investigation.root_cause, BriefLimit))]

format_investigation_event ==
    /\ ~f_event.formatted
    /\ f_event' = summary(f_investigation)
    /\ UNCHANGED f_investigation
    /\ UNCHANGED monitorVars
    /\ UNCHANGED routerVars
    /\ UNCHANGED <<busVars, correlatorVars, raceVars>>

\* ----- monitor: environment --------------------------------------------
Tick ==
    /\ clock < OneHour + MaxTick
    /\ clock' = clock + 1
    /\ UNCHANGED <<logGroupExists, logEvents, ssmParam, published, pc,
                   last_processed_time, completed_investigations, idx,
                   processed_count, sentOk, failedSend, wrote, paramAtStart,
                   query, result>>
    /\ UNCHANGED routerVars
    /\ UNCHANGED extraVars

CreateLogGroup ==
    /\ ~logGroupExists
    /\ logGroupExists' = TRUE
    /\ UNCHANGED <<clock, logEvents, ssmParam, published, pc,
                   last_processed_time, completed_investigations, idx,
                   processed_count, sentOk, failedSend, wrote, paramAtStart,
                   query, result>>
    /\ UNCHANGED routerVars
    /\ UNCHANGED extraVars

\* The investigation source appends a record stamped with the current time.
LogWith(body) ==
    /\ logGroupExists
    /\ Len(logEvents) < MaxInv
    /\ logEvents' = Append(logEvents,
                           [investigation_id |-> Len(logEvents) + 1,
                            timestamp |-> clock,
                            message |-> body])
    /\ UNCHANGED <<clock, logGroupExists, ssmParam, published, pc,
                   last_processed_time, completed_investigations, idx,
                   processed_count, sentOk, failedSend, wrote, paramAtStart,
                   query, result>>
    /\ UNCHANGED routerVars
    /\ UNCHANGED extraVars

LogInvestigation == \E body \in Bodies : LogWith(body)

\* The source appends the record of a completed investigation.
LogCompleted == LogWith("completed")

\* ----- monitor: handler -------------------------------------------------
\* Mutant of PollWith: an empty poll stores the current time as watermark.
PollWith_write_on_empty(frac, ssm_fault, fault) ==
    LET since == get_last_processed_time(frac)
        polled == get_completed_investigations(since, fault)
        invs == polled.investigations
    IN  /\ pc = "idle"
        /\ paramAtStart' = ssmParam
        /\ idx' = 1
        /\ processed_count' = 0
        /\ sentOk' = {}
        /\ failedSend' = {}
        /\ wrote' = <<>>
        /\ IF ssm_fault
           THEN /\ pc' = "idle"
                /\ result' = "raised"
                /\ query' = "none"
                /\ last_processed_time' = 0
                /\ completed_investigations' = <<>>
           ELSE /\ last_processed_time' = since
                /\ query' = query_outcome(fault)
                /\ IF polled.raised
                   THEN /\ pc' = "idle"
                        /\ result' = "raised"
                        /\ completed_investigations' = <<>>
                   ELSE /\ completed_investigations' = invs
                        /\ IF invs = <<>>
                           THEN /\ pc' = "idle"
                                /\ result' = "no_new_investigations"
                           ELSE /\ pc' = "process"
                                /\ result' = "running"
        /\ ssmParam' = IF ~ssm_fault /\ invs = <<>>
                       THEN <<clock * SubPerMs + 1>>
                       ELSE ssmParam
        /\ UNCHANGED <<clock, logGroupExists, logEvents, published>>
        /\ UNCHANGED routerVars
        /\ UNCHANGED extraVars

\* lines 56-74 and 105-107: read the watermark, poll, return early on an
\* empty poll.  ssm_fault: get_parameter raises something other than
\* ParameterNotFound, which the handler re-raises.
PollWith(frac, ssm_fault, fault) ==
    LET since == get_last_processed_time(frac)
        polled == get_completed_investigations(since, fault)
        invs == polled.investigations
    IN  /\ pc = "idle"
        /\ paramAtStart' = ssmParam
        /\ idx' = 1
        /\ processed_count' = 0
        /\ sentOk' = {}
        /\ failedSend' = {}
        /\ wrote' = <<>>
        /\ IF ssm_fault
           THEN /\ pc' = "idle"
                /\ result' = "raised"
                /\ query' = "none"
                /\ last_processed_time' = 0
                /\ completed_investigations' = <<>>
           ELSE /\ last_processed_time' = since
                /\ query' = query_outcome(fault)
                /\ IF polled.raised
                   THEN /\ pc' = "idle"
                        /\ result' = "raised"
                        /\ completed_investigations' = <<>>
                   ELSE /\ completed_investigations' = invs
                        /\ IF invs = <<>>
                           THEN /\ pc' = "idle"
                                /\ result' = "no_new_investigations"
                           ELSE /\ pc' = "process"
                                /\ result' = "running"
        /\ UNCHANGED <<clock, logGroupExists, logEvents, ssmParam, published>>
        /\ UNCHANGED routerVars
        /\ UNCHANGED extraVars

handler_poll ==
    \E frac \in 0..(SubPerMs - 1), ssm_fault \in BOOLEAN, fault \in BOOLEAN :
        /\ (ssmParam # <<>> => frac = 0)
        /\ (ssm_fault => frac = 0 /\ ~fault)
        /\ PollWith(frac, ssm_fault, fault)

\* Mutant of ProcessWith: the handler of line 87 is absent from the loop,
\* so a failed iteration ends it.
ProcessWith_abort(send) ==
    LET investigation == completed_investigations[idx]
        ok == ~format_raises(investigation) /\ send = "ok"
    IN  /\ pc = "process"
        /\ idx <= Len(completed_investigations)
        /\ (format_raises(investigation) => send = "ok")
        /\ IF ok
           THEN /\ published' = published \cup {investigation.investigation_id}
                /\ processed_count' = processed_count + 1
                /\ sentOk' = sentOk \cup {idx}
                /\ UNCHANGED failedSend
           ELSE /\ failedSend' = IF format_raises(investigation)
                                 THEN failedSend
                                 ELSE failedSend \cup {idx}
                /\ UNCHANGED <<published, processed_count, sentOk>>
        /\ idx' = idx + 1
        /\ pc' = IF idx = Len(completed_investigations) \/ ~ok
                 THEN "update" ELSE "process"
        /\ UNCHANGED <<clock, logGroupExists, logEvents, ssmParam,
                       last_processed_time, completed_investigations, wrote,
                       paramAtStart, query, result>>
        /\ UNCHANGED routerVars
        /\ UNCHANGED extraVars

\* lines 78-89: one iteration of the loop.  send is the outcome of
\* put_events (lines 317-329): "ok", "failed_entry" (FailedEntryCount > 0)
\* or "exception".  Any exception of the iteration is caught (line 87).
ProcessWith(send) ==
    LET investigation == completed_investigations[idx]
        ok == ~format_raises(investigation) /\ send = "ok"
    IN  /\ pc = "process"
        /\ idx <= Len(completed_investigations)
        /\ (format_raises(investigation) => send = "ok")
        /\ IF ok
           THEN /\ published' = published \cup {investigation.investigation_id}
                /\ processed_count' = processed_count + 1
                /\ sentOk' = sentOk \cup {idx}
                /\ UNCHANGED failedSend
           ELSE /\ failedSend' = IF format_raises(investigation)
                                 THEN failedSend
                                 ELSE failedSend \cup {idx}
                /\ UNCHANGED <<published, processed_count, sentOk>>
        /\ idx' = idx + 1
        /\ pc' = IF idx = Len(completed_investigations)
                 THEN "update" ELSE "process"
        /\ UNCHANGED <<clock, logGroupExists, logEvents, ssmParam,
                       last_processed_time, completed_investigations, wrote,
                       paramAtStart, query, result>>
        /\ UNCHANGED routerVars
        /\ UNCHANGED extraVars

handler_process ==
    \E send \in {"ok", "failed_entry", "exception"} : ProcessWith(send)

\* Mutant of update_last_processed_time: the write keeps the stored value
\* when it is later than the one given.
update_last_processed_time_keep_max(timestamp) ==
    IF ssmParam # <<>> /\ ssmParam[1] > timestamp
    THEN ssmParam
    ELSE <<timestamp>>

\* lines 123-131: put_parameter with Overwrite=True.
update_last_processed_time(timestamp) == <<timestamp>>

\* Mutant of UpdateWith: the handler of lines 105-107 swallows the failure
\* of put_parameter and the cycle returns normally.
UpdateWith_swallow(put_ok) ==
    /\ pc = "update"
    /\ IF put_ok
       THEN /\ ssmParam' = update_last_processed_time(
                               latest_time(completed_investigations))
            /\ wrote' = Append(wrote, latest_time(completed_investigations))
            /\ result' = "processed"
       ELSE /\ result' = "processed"
            /\ UNCHANGED <<ssmParam, wrote>>
    /\ pc' = "idle"
    /\ UNCHANGED <<clock, logGroupExists, logEvents, published,
                   last_processed_time, completed_investigations, idx,
                   processed_count, sentOk, failedSend, paramAtStart, query>>
    /\ UNCHANGED routerVars
    /\ UNCHANGED extraVars

\* lines 91-107: write the watermark and return; put_ok is FALSE when
\* put_parameter raises, which the handler re-raises.
UpdateWith(put_ok) ==
    /\ pc = "update"
    /\ IF put_ok
       THEN /\ ssmParam' = update_last_processed_time(
                               latest_time(completed_investigations))
            /\ wrote' = Append(wrote, latest_time(completed_investigations))
            /\ result' = "processed"
       ELSE /\ result' = "raised"
            /\ UNCHANGED <<ssmParam, wrote>>
    /\ pc' = "idle"
    /\ UNCHANGED <<clock, logGroupExists, logEvents, published,
                   last_processed_time, completed_investigations, idx,
                   processed_count, sentOk, failedSend, paramAtStart, query>>
    /\ UNCHANGED routerVars
    /\ UNCHANGED extraVars

handler_update ==
    \E put_ok \in BOOLEAN : UpdateWith(put_ok)

\* ----- monitor: a second invocation of the same handler ------------------
\* The schedule rule does not wait for the previous invocation to end, so a
\* second one may run the same lines against the same parameter, log group
\* and bus.  Only what it shares is kept of it: its position, its poll
\* result and the value it wrote.  It runs once, and starts while the first
\* is running:
\* invocations that do not overlap are those of the first alone.
\* lines 56-74: a poll that raises or returns nothing ends the invocation.
PollBWith(frac, ssm_fault, fault) ==
    LET since == get_last_processed_time(frac)
        polled == get_completed_investigations(since, fault)
        invs == polled.investigations
    IN  /\ bpc = "idle"
        /\ pc # "idle"
        /\ b_wrote = <<>>
        /\ bidx' = 1
        /\ IF ssm_fault \/ polled.raised \/ invs = <<>>
           THEN /\ bpc' = "idle"
                /\ b_completed_investigations' = <<>>
           ELSE /\ bpc' = "process"
                /\ b_completed_investigations' = invs
        /\ UNCHANGED b_wrote
        /\ UNCHANGED monitorVars
        /\ UNCHANGED routerVars
        /\ UNCHANGED <<busVars, correlatorVars, formatVars>>

handlerB_poll ==
    \E frac \in 0..(SubPerMs - 1), ssm_fault \in BOOLEAN, fault \in BOOLEAN :
        /\ (ssmParam # <<>> => frac = 0)
        /\ (ssm_fault => frac = 0 /\ ~fault)
        /\ PollBWith(frac, ssm_fault, fault)

\* lines 78-89
ProcessBWith(send) ==
    LET investigation == b_completed_investigations[bidx]
        ok == ~format_raises(investigation) /\ send = "ok"
    IN  /\ bpc = "process"
        /\ bidx <= Len(b_completed_investigations)
        /\ (format_raises(investigation) => send = "ok")
        /\ published' = IF ok
                        THEN published \cup {investigation.investigation_id}
                        ELSE published
        /\ bidx' = bidx + 1
        /\ bpc' = IF bidx = Len(b_completed_investigations)
                  THEN "update" ELSE "process"
        /\ UNCHANGED <<b_completed_investigations, b_wrote>>
        /\ UNCHANGED <<clock, logGroupExists, logEvents, ssmParam, pc,
                       last_processed_time, completed_investigations, idx,
                       processed_count, sentOk, failedSend, wrote,
                       paramAtStart, query, result>>
        /\ UNCHANGED routerVars
        /\ UNCHANGED <<busVars, correlatorVars, formatVars>>

handlerB_process ==
    \E send \in {"ok", "failed_entry", "exception"} : ProcessBWith(send)

\* lines 91-107
UpdateBWith(put_ok) ==
    /\ bpc = "update"
    /\ IF put_ok
       THEN /\ ssmParam' = update_last_processed_time(
                               latest_time(b_completed_investigations))
            /\ b_wrote' = Append(b_wrote,
                                 latest_time(b_completed_investigations))
       ELSE UNCHANGED <<ssmParam, b_wrote>>
    /\ bpc' = "idle"
    /\ b_completed_investigations' = <<>>
    /\ bidx' = 1
    /\ UNCHANGED <<clock, logGroupExists, logEvents, published, pc,
                   last_processed_time, completed_investigations, idx,
                   processed_count, sentOk, failedSend, wrote, paramAtStart,
                   query, result>>
    /\ UNCHANGED routerVars
    /\ UNCHANGED <<busVars, correlatorVars, formatVars>>

handlerB_update ==
    \E put_ok \in BOOLEAN : UpdateBWith(put_ok)

MonitorInit ==
    /\ clock = OneHour
    /\ logGroupExists = FALSE
    /\ logEvents = <<>>
    /\ ssmParam = <<>>
    /\ published = {}
    /\ pc = "idle"
    /\ last_processed_time = 0
    /\ completed_investigations = <<>>
    /\ idx = 1
    /\ processed_count = 0
    /\ sentOk = {}
    /\ failedSend = {}
    /\ wrote = <<>>
    /\ paramAtStart = <<>>
    /\ query = "none"
    /\ result = "none"

\* ----- router ----------------------------------------------------------
Severities == {"CRITICAL", "HIGH", "MEDIUM", "LOW", "OTHER"}
HighSeverities == {"CRITICAL", "HIGH"}
EventTimes == {0, 1}

\* event['detail'] as the monitor formats it (lines 226-237 of the monitor);
\* investigation_id 0 stands for a missing or empty id.
Details ==
    [investigation_id : 0..MaxEventId, severity : Severities,
     timestamp : EventTimes]

\* The value of detail while no event has been received.
NoDetail == [investigation_id |-> 0, severity |-> "LOW", timestamp |-> 0]

Call(op, ok) == [op |-> op, ok |-> ok]

\* Mutant of store_investigation: the item is built but never written.
store_investigation_noput(tbl, investigation) == tbl

\* lines 102-118: put_item replaces the item with the same primary key
\* (investigation_id, timestamp: central/app.py lines 84-100).
store_investigation(tbl, investigation) ==
    LET item == [investigation_id |-> investigation.investigation_id,
                 timestamp |-> investigation.timestamp,
                 severity |-> investigation.severity]
        sameKey(it) == /\ it.investigation_id = item.investigation_id
                       /\ it.timestamp = item.timestamp
    IN  {it \in tbl : ~sameKey(it)} \cup {item}

\* Mutant of after_store: every severity below HIGH is ticketed, LOW and
\* unknown ones included.
after_store_low_tickets(severity) ==
    IF severity \in HighSeverities THEN "page" ELSE "ticket"

\* Mutant of after_store: the broadcast alert is sent first and the paging
\* and ticketing of a CRITICAL or HIGH event are lost.
after_store_alert_first(severity) ==
    IF severity \in HighSeverities THEN "alert"
    ELSE IF severity = "MEDIUM" THEN "ticket"
    ELSE "return"

\* lines 65 and 80: the branch taken after the store write.
after_store(severity) ==
    IF severity \in HighSeverities THEN "page"
    ELSE IF severity = "MEDIUM" THEN "ticket"
    ELSE "return"

\* Mutant of ReceiveWith: the check of lines 56-57 is absent and every event
\* goes on to be stored.
ReceiveWith_unchecked(d) ==
    /\ rpc = "idle"
    /\ detail' = d
    /\ rpc' = "store"
    /\ rresult' = "running"
    /\ calls' = <<>>
    /\ actions_taken' = <<>>
    /\ UNCHANGED <<PAGERDUTY_SECRET_NAME, JIRA_SECRET_NAME, table>>
    /\ UNCHANGED monitorVars
    /\ UNCHANGED <<correlatorVars, raceVars, formatVars>>

\* lines 49-57 and 97-99: take the event and validate it.
ReceiveWith(d) ==
    /\ rpc = "idle"
    /\ detail' = d
    /\ IF d.investigation_id = 0
       THEN /\ rpc' = "idle"
            /\ rresult' = "raised"
       ELSE /\ rpc' = "store"
            /\ rresult' = "running"
    /\ calls' = <<>>
    /\ actions_taken' = <<>>
    /\ UNCHANGED <<PAGERDUTY_SECRET_NAME, JIRA_SECRET_NAME, table>>
    /\ UNCHANGED monitorVars
    /\ UNCHANGED <<correlatorVars, raceVars, formatVars>>

\* The router invoked directly with any event.
router_receive ==
    /\ routed < MaxEvents
    /\ routed' = routed + 1
    /\ \E d \in Details : ReceiveWith(d)
    /\ UNCHANGED busVars

\* Mutant of StoreWith: a failed put_item is swallowed, routing goes on.
StoreWith_swallow(ok) ==
    /\ rpc = "store"
    /\ calls' = Append(calls, Call("put_item", ok))
    /\ table' = IF ok THEN store_investigation(table, detail) ELSE table
    /\ rpc' = after_store(detail.severity)
    /\ UNCHANGED <<PAGERDUTY_SECRET_NAME, JIRA_SECRET_NAME, routed, detail,
                   actions_taken, rresult>>
    /\ UNCHANGED monitorVars
    /\ UNCHANGED extraVars

\* lines 59-60 and 97-99: the store write; its failure is re-raised.
StoreWith(ok) ==
    /\ rpc = "store"
    /\ calls' = Append(calls, Call("put_item", ok))
    /\ IF ok
       THEN /\ table' = store_investigation(table, detail)
            /\ rpc' = after_store(detail.severity)
            /\ UNCHANGED rresult
       ELSE /\ rpc' = "idle"
            /\ rresult' = "raised"
            /\ UNCHANGED table
    /\ UNCHANGED <<PAGERDUTY_SECRET_NAME, JIRA_SECRET_NAME, routed, detail,
                   actions_taken>>
    /\ UNCHANGED monitorVars
    /\ UNCHANGED extraVars

router_store ==
    \E ok \in BOOLEAN : StoreWith(ok)

\* lines 66-69 and 122-142: page_engineer catches its own failure.
PageWith(ok) ==
    /\ rpc = "page"
    /\ IF PAGERDUTY_SECRET_NAME
       THEN /\ calls' = Append(calls, Call("page_engineer", ok))
            /\ actions_taken' = Append(actions_taken, "paged_engineer")
       ELSE /\ ok
            /\ UNCHANGED <<calls, actions_taken>>
    /\ rpc' = "ticket"
    /\ UNCHANGED <<PAGERDUTY_SECRET_NAME, JIRA_SECRET_NAME, table, routed,
                   detail, rresult>>
    /\ UNCHANGED monitorVars
    /\ UNCHANGED extraVars

router_page ==
    \E ok \in BOOLEAN : PageWith(ok)

\* lines 71-74, 81-84 and 145-164: create_jira_ticket catches its own
\* failure.
TicketWith(ok) ==
    /\ rpc = "ticket"
    /\ IF JIRA_SECRET_NAME
       THEN /\ calls' = Append(calls, Call("create_jira_ticket", ok))
            /\ actions_taken' = Append(actions_taken, "created_ticket")
       ELSE /\ ok
            /\ UNCHANGED <<calls, actions_taken>>
    /\ rpc' = IF detail.severity \in HighSeverities THEN "alert" ELSE "return"
    /\ UNCHANGED <<PAGERDUTY_SECRET_NAME, JIRA_SECRET_NAME, table, routed,
                   detail, rresult>>
    /\ UNCHANGED monitorVars
    /\ UNCHANGED extraVars

router_ticket ==
    \E ok \in BOOLEAN : TicketWith(ok)

\* lines 76-78, 167-197 and 97-99: send_sns_alert has no handler of its
\* own, so a failed publish is re-raised by the handler.
AlertWith(ok) ==
    /\ rpc = "alert"
    /\ calls' = Append(calls, Call("send_sns_alert", ok))
    /\ IF ok
       THEN /\ actions_taken' = Append(actions_taken, "sent_alert")
            /\ rpc' = "return"
            /\ UNCHANGED rresult
       ELSE /\ rpc' = "idle"
            /\ rresult' = "raised"
            /\ UNCHANGED actions_taken
    /\ UNCHANGED <<PAGERDUTY_SECRET_NAME, JIRA_SECRET_NAME, table, routed,
                   detail>>
    /\ UNCHANGED monitorVars
    /\ UNCHANGED extraVars

router_alert ==
    \E ok \in BOOLEAN : AlertWith(ok)

\* lines 86-95: the success result.
router_return ==
    /\ rpc = "return"
    /\ rpc' = "idle"
    /\ rresult' = "ok"
    /\ UNCHANGED <<PAGERDUTY_SECRET_NAME, JIRA_SECRET_NAME, table, routed,
                   detail, calls, actions_taken>>
    /\ UNCHANGED monitorVars
    /\ UNCHANGED extraVars

RouterIdle ==
    /\ table = {}
    /\ routed = 0
    /\ rpc = "idle"
    /\ detail = NoDetail
    /\ calls = <<>>
    /\ actions_taken = <<>>
    /\ rresult = "none"

\* ----- central bus: rules and targets ----------------------------------
\* Every event the monitor publishes has Source 'devops.investigation' and
\* DetailType 'InvestigationCompleted' (monitor lines 319-320), so the
\* rules differ only by their severity pattern.
\* central/app.py lines 229-240
HighSeverityRule(d) == d.severity \in {"CRITICAL", "HIGH"}

\* central/app.py lines 245-257
MediumSeverityRule(d) == d.severity = "MEDIUM"

\* central/app.py lines 261-271
PatternDetectionRule(d) == TRUE

\* Router invocations one event triggers: the high-severity rule has the
\* router as a target twice (lines 241 and 284-286), the medium-severity
\* rule once (line 258); no rule sends LOW or other severities to it.
RouterTargets(d) ==
    (IF HighSeverityRule(d) THEN 2 ELSE 0)
    + (IF MediumSeverityRule(d) THEN 1 ELSE 0)

\* Correlator invocations one event triggers (line 272).
CorrelatorTargets(d) == IF PatternDetectionRule(d) THEN 1 ELSE 0

Copies(d, n) == [i \in 1..n |-> d]
RemoveAt(q, i) == [j \in 1..(Len(q) - 1) |-> IF j < i THEN q[j] ELSE q[j + 1]]

\* An event is accepted by the central bus and matched against the rules.
DeliverWith(d) ==
    /\ busEvents' = Append(busEvents,
                           [detail |-> d,
                            router |-> RouterTargets(d),
                            correlator |-> CorrelatorTargets(d)])
    /\ routerInbox' = routerInbox \o Copies(d, RouterTargets(d))
    /\ correlatorInbox' = correlatorInbox \o Copies(d, CorrelatorTargets(d))
    /\ UNCHANGED passes

bus_deliver ==
    /\ Len(busEvents) < MaxEvents
    /\ \E d \in Details : DeliverWith(d)
    /\ UNCHANGED monitorVars
    /\ UNCHANGED routerVars
    /\ UNCHANGED <<correlatorVars, raceVars, formatVars>>

\* The router is invoked with a delivered event, in no particular order.
router_invoke ==
    /\ \E i \in 1..Len(routerInbox) :
         /\ ReceiveWith(routerInbox[i])
         /\ routerInbox' = RemoveAt(routerInbox, i)
    /\ UNCHANGED <<routed, busEvents, correlatorInbox, passes>>

\* ----- correlator -------------------------------------------------------
\* A classifier response text is a sequence of tokens: an optional opening
\* fence ("fence_json" with the json tag, "fence" without), a body, an
\* optional closing fence ("fence").  The bodies stand for: a JSON
\* object of the expected shape with patterns_detected true or false, an
\* empty JSON object, an object holding only patterns_detected: true, a JSON
\* list, and text that is not JSON.
JsonBodies == {"object_true", "object_false", "object_empty",
               "object_true_partial", "list"}
TextBodies == JsonBodies \cup {"garbage"}
Texts ==
    {<<b>> : b \in TextBodies}
    \cup {<<"fence_json", b, "fence">> : b \in TextBodies}
    \cup {<<"fence", b, "fence">> : b \in TextBodies}

\* What invoke_model and the reading of its envelope (lines 119-137) give:
\* an exception, or the text of the first content block.
Responses == {<<"invoke_raises">>, <<"bad_envelope">>} \cup Texts

NoAnalysis ==
    [kind |-> "none", patterns_detected |-> "absent", error |-> FALSE,
     complete |-> FALSE]

\* lines 146 and 201-204: the result that stands for a failure.
ErrorAnalysis ==
    [kind |-> "object", patterns_detected |-> "false", error |-> TRUE,
     complete |-> FALSE]

\* json.loads of line 196 on a body that is valid JSON.
json_value(body) ==
    IF body = "object_true"
    THEN [kind |-> "object", patterns_detected |-> "true", error |-> FALSE,
          complete |-> TRUE]
    ELSE IF body = "object_false"
    THEN [kind |-> "object", patterns_detected |-> "false", error |-> FALSE,
          complete |-> TRUE]
    ELSE IF body = "object_true_partial"
    THEN [kind |-> "object", patterns_detected |-> "true", error |-> FALSE,
          complete |-> FALSE]
    ELSE IF body = "object_empty"
    THEN [kind |-> "object", patterns_detected |-> "absent", error |-> FALSE,
          complete |-> FALSE]
    ELSE [kind |-> "nonobject", patterns_detected |-> "absent",
          error |-> FALSE, complete |-> FALSE]

\* lines 186-204: strip an opening json fence and a closing fence, parse; a
\* JSONDecodeError gives the error result, any JSON value is returned as is.
parse_bedrock_response(response_text) ==
    LET opened == IF response_text # <<>> /\ Head(response_text) = "fence_json"
                  THEN Tail(response_text) ELSE response_text
        cleaned == IF opened # <<>> /\ opened[Len(opened)] = "fence"
                   THEN SubSeq(opened, 1, Len(opened) - 1) ELSE opened
    IN  IF Len(cleaned) = 1 /\ cleaned[1] \in JsonBodies
        THEN json_value(cleaned[1])
        ELSE ErrorAnalysis

\* Mutant of analyze_patterns_with_bedrock: the handler of lines 144-146 is
\* absent, so a failed call leaves the handler without an analysis.
analyze_patterns_with_bedrock_propagate(resp) ==
    IF resp \in {<<"invoke_raises">>, <<"bad_envelope">>}
    THEN NoAnalysis
    ELSE parse_bedrock_response(resp)

\* lines 104-146: every exception of the call or of the envelope is caught.
analyze_patterns_with_bedrock(resp) ==
    IF resp \in {<<"invoke_raises">>, <<"bad_envelope">>}
    THEN ErrorAnalysis
    ELSE parse_bedrock_response(resp)

\* What one Scan call reads before it filters: the whole table when it fits
\* in a page, else one page of it, in the order of the partitions.
ScanPages(tbl) ==
    IF Cardinality(tbl) <= PageItems
    THEN {tbl}
    ELSE {page \in SUBSET tbl : Cardinality(page) = PageItems}

\* lines 90-101: one scan call with the filter timestamp >= cutoff; the
\* LastEvaluatedKey of the response is not read.
query_recent_investigations(cutoff, page) ==
    {it \in page : it.timestamp >= cutoff}

\* Mutant of insufficient_data: the threshold of line 62 is 2.
insufficient_data_below_two(investigations) == Cardinality(investigations) < 2

\* line 62
insufficient_data(investigations) == Cardinality(investigations) < 3

\* Mutant of should_alert: alert unless the analysis carries an error.
should_alert_unless_error(a) == ~a.error

\* line 73: analysis.get('patterns_detected')
should_alert(a) == a.patterns_detected = "true"

\* Mutant of CorrelateWith: the handler stores the event it is given, as the
\* comment of line 49 announces, before it validates it.
CorrelateWith_stores(d) ==
    /\ cpc = "idle"
    /\ cdetail' = d
    /\ recent_investigations' = {}
    /\ response' = <<>>
    /\ analysis' = NoAnalysis
    /\ ccalls' = <<>>
    /\ tableAtStart' = table
    /\ cutoff_time' = 0
    /\ table' = store_investigation(table, d)
    /\ IF d.investigation_id = 0
       THEN /\ cpc' = "idle"
            /\ cresult' = "raised"
       ELSE /\ cpc' = "scan"
            /\ cresult' = "running"
    /\ UNCHANGED monitorVars
    /\ UNCHANGED <<PAGERDUTY_SECRET_NAME, JIRA_SECRET_NAME, routed, rpc,
                   detail, calls, actions_taken, rresult>>
    /\ UNCHANGED <<raceVars, formatVars>>

\* lines 48-54 and 85-87: take the event and validate it.
CorrelateWith(d) ==
    /\ cpc = "idle"
    /\ cdetail' = d
    /\ recent_investigations' = {}
    /\ response' = <<>>
    /\ analysis' = NoAnalysis
    /\ ccalls' = <<>>
    /\ tableAtStart' = table
    /\ cutoff_time' = 0
    /\ IF d.investigation_id = 0
       THEN /\ cpc' = "idle"
            /\ cresult' = "raised"
       ELSE /\ cpc' = "scan"
            /\ cresult' = "running"
    /\ UNCHANGED monitorVars
    /\ UNCHANGED routerVars
    /\ UNCHANGED <<raceVars, formatVars>>

\* The correlator invoked directly with any event.
correlator_receive ==
    /\ \E d \in Details : CorrelateWith(d)
    /\ UNCHANGED busVars

\* What a finished correlator invocation leaves behind: the event it was
\* given, its outcome, and whether it called the classifier (line 70).
PassRecord ==
    [investigation_id |-> cdetail.investigation_id,
     result |-> cresult,
     classified |-> \E i \in 1..Len(ccalls) : ccalls[i].op = "invoke_model"]

\* The correlator is invoked with a delivered event, in no particular order;
\* the invocation that finished before it is kept in passes.
correlator_invoke ==
    /\ \E i \in 1..Len(correlatorInbox) :
         /\ CorrelateWith(correlatorInbox[i])
         /\ correlatorInbox' = RemoveAt(correlatorInbox, i)
    /\ passes' = IF cresult = "none" THEN passes
                 ELSE Append(passes, PassRecord)
    /\ UNCHANGED <<busEvents, routerInbox>>

\* lines 56-67: scan the trailing window and stop below the threshold.
\* frac is the sub-millisecond part of utcnow(); ok is FALSE when the scan
\* raises, which the handler re-raises.
ScanWith(frac, page, ok) ==
    LET cutoff == (clock - OneDay) * SubPerMs + frac
        recent == query_recent_investigations(cutoff, page)
    IN  /\ cpc = "scan"
        /\ cutoff_time' = cutoff
        /\ ccalls' = Append(ccalls, Call("scan", ok))
        /\ IF ~ok
           THEN /\ cpc' = "idle"
                /\ cresult' = "raised"
                /\ UNCHANGED recent_investigations
           ELSE /\ recent_investigations' = recent
                /\ IF insufficient_data(recent)
                   THEN /\ cpc' = "idle"
                        /\ cresult' = "insufficient_data"
                   ELSE /\ cpc' = "analyze"
                        /\ UNCHANGED cresult
        /\ UNCHANGED <<cdetail, response, analysis, tableAtStart>>
        /\ UNCHANGED monitorVars
        /\ UNCHANGED routerVars
        /\ UNCHANGED <<busVars, raceVars, formatVars>>

correlator_scan ==
    \E frac \in 0..(SubPerMs - 1), page \in ScanPages(table), ok \in BOOLEAN :
        /\ ScanWith(frac, page, ok)

\* lines 69-73 and 85-87: call the classifier and read the result; a result
\* that is not a dict makes analysis.get raise, which the handler re-raises.
AnalyzeWith(resp) ==
    LET a == analyze_patterns_with_bedrock(resp)
    IN  /\ cpc = "analyze"
        /\ response' = resp
        /\ analysis' = a
        /\ ccalls' = Append(ccalls,
                            Call("invoke_model", resp # <<"invoke_raises">>))
        /\ IF a.kind # "object"
           THEN /\ cpc' = "idle"
                /\ cresult' = "raised"
           ELSE /\ cpc' = IF should_alert(a) THEN "alert" ELSE "return"
                /\ UNCHANGED cresult
        /\ UNCHANGED <<cdetail, recent_investigations, tableAtStart,
                       cutoff_time>>
        /\ UNCHANGED monitorVars
        /\ UNCHANGED routerVars
        /\ UNCHANGED <<busVars, raceVars, formatVars>>

correlator_analyze ==
    \E resp \in Responses : AnalyzeWith(resp)

\* lines 74 and 207-235: alert_senior_engineer publishes once; a failed
\* publish is re-raised by the handler.
CorrelatorAlertWith(ok) ==
    /\ cpc = "alert"
    /\ ccalls' = Append(ccalls, Call("sns_publish", ok))
    /\ IF ok
       THEN /\ cpc' = "return"
            /\ UNCHANGED cresult
       ELSE /\ cpc' = "idle"
            /\ cresult' = "raised"
    /\ UNCHANGED <<cdetail, recent_investigations, response, analysis,
                   tableAtStart, cutoff_time>>
    /\ UNCHANGED monitorVars
    /\ UNCHANGED routerVars
    /\ UNCHANGED <<busVars, raceVars, formatVars>>

correlator_alert ==
    \E ok \in BOOLEAN : CorrelatorAlertWith(ok)

\* lines 76-83: the success result.
correlator_return ==
    /\ cpc = "return"
    /\ cpc' = "idle"
    /\ cresult' = "ok"
    /\ UNCHANGED <<cdetail, recent_investigations, response, analysis, ccalls,
                   tableAtStart, cutoff_time>>
    /\ UNCHANGED monitorVars
    /\ UNCHANGED routerVars
    /\ UNCHANGED <<busVars, raceVars, formatVars>>

BusIdle ==
    /\ busEvents = <<>>
    /\ routerInbox = <<>>
    /\ correlatorInbox = <<>>
    /\ passes = <<>>

CorrelatorIdle ==
    /\ cpc = "idle"
    /\ cdetail = NoDetail
    /\ recent_investigations = {}
    /\ response = <<>>
    /\ analysis = NoAnalysis
    /\ ccalls = <<>>
    /\ tableAtStart = {}
    /\ cresult = "none"
    /\ cutoff_time = 0

RaceIdle ==
    /\ bpc = "idle"
    /\ b_completed_investigations = <<>>
    /\ bidx = 1
    /\ b_wrote = <<>>

FormatIdle ==
    /\ f_investigation = NoInvestigation
    /\ f_event = NoEvent

ExtraIdle ==
    /\ BusIdle
    /\ CorrelatorIdle
    /\ RaceIdle
    /\ FormatIdle

\* ----- specifications --------------------------------------------------
\* The monitor of one client, its poll cycles not overlapping.
Init ==
    /\ MonitorInit
    /\ PAGERDUTY_SECRET_NAME = TRUE
    /\ JIRA_SECRET_NAME = TRUE
    /\ RouterIdle
    /\ ExtraIdle

Next ==
    \/ Tick
    \/ CreateLogGroup
    \/ LogInvestigation
    \/ handler_poll
    \/ handler_process
    \/ handler_update

Spec == Init /\ [][Next]_vars

\* The router, one event at a time, under every deployment configuration.
RouterInit ==
    /\ MonitorInit
    /\ PAGERDUTY_SECRET_NAME \in BOOLEAN
    /\ JIRA_SECRET_NAME \in BOOLEAN
    /\ RouterIdle
    /\ ExtraIdle

RouterNext ==
    \/ router_receive
    \/ router_store
    \/ router_page
    \/ router_ticket
    \/ router_alert
    \/ router_return

RouterSpec == RouterInit /\ [][RouterNext]_vars

\* The central account: events arriving on the bus and the router
\* invocations the rules trigger.
BusNext ==
    \/ bus_deliver
    \/ router_invoke
    \/ router_store
    \/ router_page
    \/ router_ticket
    \/ router_alert
    \/ router_return

BusSpec == RouterInit /\ [][BusNext]_vars

\* The correlator, one event at a time, at one instant, over every table
\* the router can have filled: items of distinct keys, timestamped before,
\* at and after the cutoff.  The severity of an item, which the handler
\* only copies into the prompt, is the same for all.
StoredItems ==
    [investigation_id : 1..MaxEventId, timestamp : EventTimes,
     severity : {"HIGH"}]

DistinctKeys(T) ==
    \A x, y \in T :
        (x.investigation_id = y.investigation_id
         /\ x.timestamp = y.timestamp) => x = y

CorrelatorInit ==
    /\ MonitorInit
    /\ PAGERDUTY_SECRET_NAME = TRUE
    /\ JIRA_SECRET_NAME = TRUE
    /\ table \in {T \in SUBSET StoredItems :
                     Cardinality(T) <= MaxItems /\ DistinctKeys(T)}
    /\ routed = 0
    /\ rpc = "idle"
    /\ detail = NoDetail
    /\ calls = <<>>
    /\ actions_taken = <<>>
    /\ rresult = "none"
    /\ ExtraIdle

CorrelatorNext ==
    \/ correlator_receive
    \/ correlator_scan
    \/ correlator_analyze
    \/ correlator_alert
    \/ correlator_return

CorrelatorSpec == CorrelatorInit /\ [][CorrelatorNext]_vars

\* The central account end to end: a batch of three events with distinct
\* identities published at the initial instant, and the router and
\* correlator invocations the rules trigger for them, their steps
\* interleaved.  The events are of MEDIUM severity: one router invocation
\* each, which stores the event and opens a ticket.
PipelineEvents ==
    [i \in 1..3 |-> [investigation_id |-> i, severity |-> "MEDIUM",
                     timestamp |-> OneHour * SubPerMs]]

pipeline_publish ==
    /\ Len(busEvents) < Len(PipelineEvents)
    /\ DeliverWith(PipelineEvents[Len(busEvents) + 1])
    /\ UNCHANGED monitorVars
    /\ UNCHANGED routerVars
    /\ UNCHANGED <<correlatorVars, raceVars, formatVars>>

PipelineNext ==
    \/ pipeline_publish
    \/ router_invoke
    \/ router_store
    \/ router_ticket
    \/ router_return
    \/ correlator_invoke
    \/ correlator_scan
    \/ correlator_analyze
    \/ correlator_alert
    \/ correlator_return

PipelineSpec == Init /\ [][PipelineNext]_vars

\* The monitor of one client over a source of completed investigations, its
\* poll cycles not overlapping: the cycles that follow a failed one.
RetryNext ==
    \/ Tick
    \/ CreateLogGroup
    \/ LogCompleted
    \/ handler_poll
    \/ handler_process
    \/ handler_update

RetrySpec == Init /\ [][RetryNext]_vars

\* Events that carry no investigation_id, of every severity, published at
\* the initial instant to a central account whose store already holds
\* records.
reject_publish ==
    /\ Len(busEvents) < MaxEvents
    /\ \E severity \in Severities :
         DeliverWith([investigation_id |-> 0, severity |-> severity,
                      timestamp |-> OneHour * SubPerMs])
    /\ UNCHANGED monitorVars
    /\ UNCHANGED routerVars
    /\ UNCHANGED <<correlatorVars, raceVars, formatVars>>

RejectNext ==
    \/ reject_publish
    \/ router_invoke
    \/ correlator_invoke

RejectSpec == CorrelatorInit /\ [][RejectNext]_vars

\* The monitor of one client with two invocations that may overlap, over a
\* source of completed investigations.
RaceNext ==
    \/ Tick
    \/ CreateLogGroup
    \/ LogCompleted
    \/ handler_poll
    \/ handler_process
    \/ handler_update
    \/ handlerB_poll
    \/ handlerB_process
    \/ handlerB_update

RaceSpec == Init /\ [][RaceNext]_vars

\* The monitor over a log group already holding records, which FilterLogEvents
\* returns in the order of the sequence: the timestamp of a record is given
\* by its producer, so the order need not be that of the timestamps.
SourceLogs ==
    UNION {{[i \in 1..n |-> [investigation_id |-> i,
                             timestamp |-> f[i].timestamp,
                             message |-> f[i].message]] :
               f \in [1..n -> [timestamp : (OneHour - 1)..OneHour,
                               message : Bodies]]} : n \in 0..MaxInv}

OrderInit ==
    /\ clock = OneHour
    /\ logGroupExists = TRUE
    /\ logEvents \in SourceLogs
    /\ ssmParam = <<>>
    /\ published = {}
    /\ pc = "idle"
    /\ last_processed_time = 0
    /\ completed_investigations = <<>>
    /\ idx = 1
    /\ processed_count = 0
    /\ sentOk = {}
    /\ failedSend = {}
    /\ wrote = <<>>
    /\ paramAtStart = <<>>
    /\ query = "none"
    /\ result = "none"
    /\ PAGERDUTY_SECRET_NAME = TRUE
    /\ JIRA_SECRET_NAME = TRUE
    /\ RouterIdle
    /\ ExtraIdle

OrderNext ==
    \/ Tick
    \/ LogInvestigation
    \/ handler_poll
    \/ handler_process
    \/ handler_update

OrderSpec == OrderInit /\ [][OrderNext]_vars

\* format_investigation_event applied to one investigation: every root cause
\* text with no resources, every resource list with an empty root cause.
FormatInit ==
    /\ MonitorInit
    /\ PAGERDUTY_SECRET_NAME = TRUE
    /\ JIRA_SECRET_NAME = TRUE
    /\ RouterIdle
    /\ BusIdle
    /\ CorrelatorIdle
    /\ RaceIdle
    /\ f_investigation \in
           [root_cause : RootCauses, affected_resources : {<<>>}]
           \cup [root_cause : {<<>>}, affected_resources : ResourceLists]
    /\ f_event = NoEvent

FormatNext == format_investigation_event

FormatSpec == FormatInit /\ [][FormatNext]_vars

\* ----- fairness for the monitor -----------------------------------------
\* The schedule rule fires forever (client/app.py lines 138-151), so every
\* step of the handler is eventually taken; faults of the parameter store,
\* of the log query and of the bus are transient: a call made again and
\* again eventually succeeds.
PublishOk(i) ==
    /\ pc = "process"
    /\ idx <= Len(completed_investigations)
    /\ completed_investigations[idx].investigation_id = i
    /\ ProcessWith("ok")

FairSpec ==
    /\ Init
    /\ [][Next]_vars
    /\ WF_vars(handler_poll)
    /\ SF_vars(\E frac \in 0..(SubPerMs - 1) : PollWith(frac, FALSE, FALSE))
    /\ WF_vars(handler_process)
    /\ \A i \in 1..MaxInv : SF_vars(PublishOk(i))
    /\ WF_vars(handler_update)
    /\ SF_vars(UpdateWith(TRUE))

\* ----- claims: monitor --------------------------------------------------
CompletedAt(k) == completed_investigations[k].completed_at
Returned == 1..Len(completed_investigations)
CycleEnded == pc = "idle" /\ result \in {"processed", "no_new_investigations"}

\* C1: a value w written by a cycle is never at or past the completion time
\* of an investigation of that cycle whose put_events failed.
C1_WatermarkNotPastFailedPublish ==
    \A i \in 1..Len(wrote) :
        \A k \in Returned : CompletedAt(k) <= wrote[i] => k \notin failedSend

\* C2: a cycle writes the watermark at most once, only if it published at
\* least one investigation, the value being the largest completed_at among
\* the published ones; with nothing published the parameter is unchanged.
C2_WatermarkIsMaxOfPublished ==
    /\ Len(wrote) <= 1
    /\ wrote # <<>> =>
         /\ sentOk # {}
         /\ wrote[1] = SetMax({CompletedAt(k) : k \in sentOk})
    /\ (CycleEnded /\ sentOk = {}) => ssmParam = paramAtStart

\* C3: every COMPLETED investigation of the log whose event is within the
\* size cap is eventually published to the central bus.
LoggedCompleted(i) ==
    /\ i <= Len(logEvents)
    /\ logEvents[i].message = "completed"

C3_EveryCompletedEventuallyPublished ==
    \A i \in 1..MaxInv : LoggedCompleted(i) ~> (i \in published)

C6_ReturnedStrictlyAfterSince ==
    \A k \in Returned : CompletedAt(k) > last_processed_time

\* ----- claims: router ---------------------------------------------------
Channels == {"page_engineer", "create_jira_ticket", "send_sns_alert"}
CallNames == [i \in 1..Len(calls) |-> calls[i].op]
IsPrefix(s, t) == Len(s) <= Len(t) /\ \A i \in 1..Len(s) : s[i] = t[i]
RouterEnded == rpc = "idle" /\ rresult \in {"ok", "raised"}

\* The calls the handler makes for a severity when nothing is fatal, given
\* which secret names are configured.
Prescribed(severity, pagerduty, jira) ==
    <<"put_item">>
    \o (IF severity \in HighSeverities /\ pagerduty
        THEN <<"page_engineer">> ELSE <<>>)
    \o (IF severity \in HighSeverities \cup {"MEDIUM"} /\ jira
        THEN <<"create_jira_ticket">> ELSE <<>>)
    \o (IF severity \in HighSeverities THEN <<"send_sns_alert">> ELSE <<>>)

\* C7: when a notification channel fails after a successful store write,
\* the handler does not raise, attempts every channel prescribed for the
\* severity and returns its success result.
C7_NotificationFailureNeverFatal ==
    (/\ RouterEnded
     /\ \E i \in 1..Len(calls) : calls[i].op \in Channels /\ ~calls[i].ok)
    => /\ rresult = "ok"
       /\ CallNames = Prescribed(detail.severity, PAGERDUTY_SECRET_NAME,
                                 JIRA_SECRET_NAME)

\* C8: once the router has finished a CRITICAL or HIGH event carrying an
\* id, put_item was called first and, unless put_item itself failed, the
\* item is in the table, whatever the channels did.
C8_StoreWriteOccurs ==
    (/\ RouterEnded
     /\ detail.severity \in HighSeverities
     /\ detail.investigation_id # 0)
    => /\ calls # <<>>
       /\ calls[1].op = "put_item"
       /\ calls[1].ok =>
            [investigation_id |-> detail.investigation_id,
             timestamp |-> detail.timestamp,
             severity |-> detail.severity] \in table

C8_Witness ==
    /\ RouterEnded
    /\ detail.severity \in HighSeverities
    /\ Len(calls) = 4
    /\ calls[1].ok
    /\ \A i \in 2..4 : ~calls[i].ok
    /\ \E it \in table : it.investigation_id = detail.investigation_id

\* C9: a failed put_item ends the invocation with the fault raised, and no
\* notification channel is called for the event.
C9_StoreFailureIsFatal ==
    (\E i \in 1..Len(calls) : calls[i].op = "put_item" /\ ~calls[i].ok)
    => /\ rpc = "idle"
       /\ rresult = "raised"
       /\ Len(calls) = 1
       /\ actions_taken = <<>>

C9_Witness ==
    /\ calls = <<Call("put_item", FALSE)>>
    /\ detail.severity \in HighSeverities
    /\ rresult = "raised"

\* C10 as stated: for a CRITICAL or HIGH event the calls are, in order,
\* the store write, paging, ticketing and the broadcast alert.
C10_FixedOrder ==
    (detail.severity \in HighSeverities /\ detail.investigation_id # 0)
    => /\ IsPrefix(CallNames, Prescribed(detail.severity, TRUE, TRUE))
       /\ (rpc = "idle" /\ rresult = "ok") =>
            CallNames = Prescribed(detail.severity, TRUE, TRUE)

\* C10, amended: for a CRITICAL or HIGH event the calls are, in order, the
\* store write, paging if PAGERDUTY_API_KEY_SECRET is set, ticketing if
\* JIRA_API_KEY_SECRET is set, and the broadcast alert; no channel is
\* called before put_item has succeeded.
C10_ConfiguredOrder ==
    (detail.severity \in HighSeverities /\ detail.investigation_id # 0)
    => /\ IsPrefix(CallNames, Prescribed(detail.severity,
                                         PAGERDUTY_SECRET_NAME,
                                         JIRA_SECRET_NAME))
       /\ (rpc = "idle" /\ rresult = "ok") =>
            CallNames = Prescribed(detail.severity, PAGERDUTY_SECRET_NAME,
                                   JIRA_SECRET_NAME)
       /\ Len(calls) > 1 => calls[1].ok

C10_Witness ==
    /\ rpc = "idle"
    /\ rresult = "ok"
    /\ detail.severity \in HighSeverities
    /\ CallNames = <<"put_item", "page_engineer", "create_jira_ticket",
                     "send_sns_alert">>

\* C11 as stated: a MEDIUM event gets the store write and then the
\* ticketing notification, and nothing else; a LOW or other event gets the
\* store write only.
C11_MediumTicketsLowStores ==
    (rpc = "idle" /\ rresult = "ok" /\ detail.severity \notin HighSeverities)
    => CallNames = IF detail.severity = "MEDIUM"
                   THEN <<"put_item", "create_jira_ticket">>
                   ELSE <<"put_item">>

\* C11, amended: a MEDIUM event gets the store write and then, if
\* JIRA_API_KEY_SECRET is set, the ticketing notification; a LOW or other
\* event gets the store write only; neither is ever paged or broadcast.
C11_MediumTicketsIfConfigured ==
    (detail.severity \notin HighSeverities /\ detail.investigation_id # 0)
    => /\ \A i \in 1..Len(calls) :
            calls[i].op \notin {"page_engineer", "send_sns_alert"}
       /\ (rpc = "idle" /\ rresult = "ok") =>
            CallNames = IF detail.severity = "MEDIUM" /\ JIRA_SECRET_NAME
                        THEN <<"put_item", "create_jira_ticket">>
                        ELSE <<"put_item">>

C11_Witness ==
    /\ rpc = "idle"
    /\ rresult = "ok"
    /\ detail.severity = "MEDIUM"
    /\ CallNames = <<"put_item", "create_jira_ticket">>
    /\ actions_taken = <<"created_ticket">>

\* ----- claims: central bus ----------------------------------------------
\* C12: every event accepted by the central bus, whatever its severity,
\* triggers the router and the correlator.
C12_DeliveredToRouterAndCorrelator ==
    \A i \in 1..Len(busEvents) :
        /\ busEvents[i].router >= 1
        /\ busEvents[i].correlator >= 1

\* ----- claims: correlator ------------------------------------------------
CorrelatorCalled(op) == \E i \in 1..Len(ccalls) : ccalls[i].op = op
ScanReturned == \E i \in 1..Len(ccalls) : ccalls[i].op = "scan" /\ ccalls[i].ok

\* C13: the correlator calls the classifier if and only if its scan of the
\* trailing window returned 3 or more records; with 0, 1 or 2 records it
\* calls no classifier, sends no alert and returns a success result.
C13_ClassifierIffThreeOrMore ==
    /\ CorrelatorCalled("invoke_model")
         => (ScanReturned /\ Cardinality(recent_investigations) >= 3)
    /\ (ScanReturned /\ Cardinality(recent_investigations) >= 3
         /\ cpc \in {"alert", "return", "idle"})
         => CorrelatorCalled("invoke_model")
    /\ (ScanReturned /\ Cardinality(recent_investigations) < 3)
         => /\ cpc = "idle"
            /\ cresult = "insufficient_data"
            /\ ~CorrelatorCalled("invoke_model")
            /\ ~CorrelatorCalled("sns_publish")

C13_Witness ==
    /\ cpc = "idle"
    /\ cresult = "insufficient_data"
    /\ Cardinality(recent_investigations) = 2
    /\ Cardinality(tableAtStart) = 3
    /\ ccalls = <<[op |-> "scan", ok |-> TRUE]>>

\* The bodies that are not a JSON object of the expected shape: text that is
\* not JSON, a JSON list, an object without the required keys.
MalformedBodies == {"garbage", "list", "object_empty", "object_true_partial"}
MalformedResponse ==
    \E i \in 1..Len(response) : response[i] \in MalformedBodies

\* C14: for every classifier response text that is not a JSON object of the
\* expected shape, the correlator yields patterns_detected = false with an
\* error marker, sends no alert, and the handler returns without raising.
C14_MalformedResponseDegrades ==
    MalformedResponse
    => /\ analysis.patterns_detected = "false"
       /\ analysis.error
       /\ ~CorrelatorCalled("sns_publish")
       /\ cpc \in {"return", "idle"}
       /\ cpc = "idle" => cresult = "ok"

\* C15: when invoke_model raises or its envelope cannot be read,
\* analyze_patterns_with_bedrock returns patterns_detected = false carrying
\* the error, no alert is sent, and the handler returns a success result.
C15_ClassifierFailureDegrades ==
    response \in {<<"invoke_raises">>, <<"bad_envelope">>}
    => /\ analysis.kind = "object"
       /\ analysis.patterns_detected = "false"
       /\ analysis.error
       /\ ~CorrelatorCalled("sns_publish")
       /\ cpc \in {"return", "idle"}
       /\ cpc = "idle" => cresult = "ok"

C15_Witness ==
    /\ cpc = "idle"
    /\ cresult = "ok"
    /\ response = <<"invoke_raises">>
    /\ analysis.error
    /\ ccalls = <<[op |-> "scan", ok |-> TRUE],
                  [op |-> "invoke_model", ok |-> FALSE]>>

\* C16: a correlation pass publishes exactly one broadcast notification
\* when the parsed analysis has patterns_detected true, and publishes none
\* and has no other side effect when patterns_detected is false or absent
\* (below the threshold, on a classifier failure, on a parse failure).
C16_OnePublishIffPatternsDetected ==
    LET publishes == {i \in 1..Len(ccalls) : ccalls[i].op = "sns_publish"}
        detected == analysis.kind = "object"
                    /\ analysis.patterns_detected = "true"
    IN  /\ Cardinality(publishes) <= 1
        /\ publishes # {} => detected
        /\ (detected /\ cpc \in {"return", "idle"})
             => Cardinality(publishes) = 1
        /\ table = tableAtStart \/ cresult = "none"
        /\ \A i \in 1..Len(ccalls) :
             ccalls[i].op \in {"scan", "invoke_model", "sns_publish"}

C16_Witness ==
    /\ cpc = "idle"
    /\ cresult = "ok"
    /\ analysis.patterns_detected = "true"
    /\ ccalls = <<[op |-> "scan", ok |-> TRUE],
                  [op |-> "invoke_model", ok |-> TRUE],
                  [op |-> "sns_publish", ok |-> TRUE]>>

\* ----- claims: overlapping poll cycles ------------------------------------
\* C17: when two poll cycles of one client overlap, each watermark write is
\* an unconditional overwrite: the value stored is the value of whichever
\* write happened last, even when it is lower than the value the other
\* cycle wrote; nothing else changes the stored value.
C17_LastWriteWins ==
    [][ /\ Len(wrote') > Len(wrote)
            => ssmParam' = <<wrote'[Len(wrote')]>>
        /\ Len(b_wrote') > Len(b_wrote)
            => ssmParam' = <<b_wrote'[Len(b_wrote')]>>
        /\ (Len(wrote') <= Len(wrote) /\ Len(b_wrote') = Len(b_wrote))
            => ssmParam' = ssmParam ]_vars

\* Both cycles have finished, the first one wrote last, and what it wrote
\* is lower than what the other had written.
C17_Witness ==
    /\ pc = "idle"
    /\ bpc = "idle"
    /\ result = "processed"
    /\ wrote # <<>>
    /\ b_wrote # <<>>
    /\ ssmParam = <<wrote[Len(wrote)]>>
    /\ wrote[Len(wrote)] < b_wrote[Len(b_wrote)]

\* ----- claims: the processing loop ----------------------------------------
LoopOver ==
    \/ pc = "update"
    \/ pc = "idle" /\ result \in {"processed", "raised"}
                   /\ completed_investigations # <<>>

\* C18: an investigation whose publish fails is not counted and not tried
\* again, every remaining investigation of the cycle is still handled, and
\* the handler returns the 200 result with processed_count equal to the
\* number of investigations formatted and published.
C18_FailedPublishSkipsOnlyItself ==
    /\ processed_count = Cardinality(sentOk)
    /\ sentOk \cap failedSend = {}
    /\ pc = "process" => (sentOk \cup failedSend) \subseteq 1..(idx - 1)
    /\ LoopOver => idx = Len(completed_investigations) + 1
    /\ (pc = "idle" /\ wrote # <<>>) => result = "processed"

C18_Witness ==
    /\ pc = "idle"
    /\ result = "processed"
    /\ Len(completed_investigations) = 2
    /\ failedSend = {1}
    /\ sentOk = {2}
    /\ processed_count = 1

\* C19: every event format_investigation_event returns is at most 256,000
\* bytes long; an investigation whose event would be larger is not
\* published, and every other investigation of the cycle is still processed.
C19_SizeCap ==
    /\ \A k \in sentOk \cup failedSend :
           completed_investigations[k].event_size <= 256000
    /\ \A i \in 1..Len(logEvents) :
           logEvents[i].message = "completed_oversized"
           => logEvents[i].investigation_id \notin published
    /\ LoopOver =>
           \A k \in 1..Len(completed_investigations) :
               completed_investigations[k].event_size <= 256000
               => k \in sentOk \cup failedSend

C19_Witness ==
    /\ pc = "idle"
    /\ result = "processed"
    /\ Len(completed_investigations) = 2
    /\ completed_investigations[1].event_size = 256001
    /\ completed_investigations[2].event_size = 256000
    /\ sentOk = {2}
    /\ processed_count = 1

\* C20: when the poll returns no investigation the handler writes nothing
\* to the state store, publishes nothing and returns the 'No new
\* investigations' result; the stored watermark is the one it started with.
C20_EmptyPollChangesNothing ==
    /\ (pc = "idle" /\ result = "no_new_investigations")
         => /\ completed_investigations = <<>>
            /\ wrote = <<>>
            /\ sentOk = {}
            /\ failedSend = {}
            /\ processed_count = 0
            /\ ssmParam = paramAtStart
    /\ (pc = "idle" /\ result # "none" /\ completed_investigations = <<>>
         /\ query # "none")
         => result = "no_new_investigations"

C20_Witness ==
    /\ pc = "idle"
    /\ result = "no_new_investigations"
    /\ query = "ok"
    /\ logEvents # <<>>
    /\ ssmParam = paramAtStart

\* ----- claims: the poll ---------------------------------------------------
\* A step of the handler that polled the source and got its answer.
Polled ==
    /\ pc = "idle"
    /\ clock' = clock
    /\ logEvents' = logEvents
    /\ logGroupExists' = logGroupExists
    /\ query' = "ok"

\* C21: a record whose body is malformed (not JSON, or JSON that is not an
\* object) is skipped without failing the poll: every other COMPLETED
\* record of the same response, before or after it, is still returned.
C21_MalformedRecordSkipped ==
    [][ Polled =>
          \A i \in 1..Len(logEvents) :
              ( /\ logEvents[i].message \in {"completed", "completed_oversized"}
                /\ logEvents[i].timestamp >= last_processed_time' \div SubPerMs )
              => \E k \in 1..Len(completed_investigations') :
                     completed_investigations'[k].investigation_id
                         = logEvents[i].investigation_id ]_vars

\* C22: when the log group does not exist, get_completed_investigations
\* returns an empty sequence without raising, and the handler ends with the
\* 'No new investigations' result and no state change.
C22_MissingLogGroupIsEmptyPoll ==
    query = "not_found"
    => /\ pc = "idle"
       /\ result = "no_new_investigations"
       /\ completed_investigations = <<>>
       /\ wrote = <<>>
       /\ sentOk = {}
       /\ failedSend = {}
       /\ ssmParam = paramAtStart

C22_Witness ==
    /\ query = "not_found"
    /\ ~logGroupExists
    /\ pc = "idle"
    /\ result = "no_new_investigations"
    /\ published = {}

\* C23: get_last_processed_time returns the stored value when the watermark
\* parameter exists; when it does not, it returns the current time minus
\* one hour, without raising and without writing to the state store.
C23_StoredValueOrHourAgo ==
    [][ (pc = "idle" /\ query' # "none"
         /\ last_processed_time' # last_processed_time)
        => /\ ssmParam' = ssmParam
           /\ IF ssmParam # <<>>
              THEN last_processed_time' = ssmParam[1]
              ELSE /\ last_processed_time' >= (clock - OneHour) * SubPerMs
                   /\ last_processed_time' < (clock - OneHour + 1) * SubPerMs
       ]_vars

C23_Witness ==
    /\ paramAtStart = <<>>
    /\ ssmParam = <<>>
    /\ query = "ok"
    /\ clock > OneHour
    /\ last_processed_time = (clock - OneHour) * SubPerMs + 1

\* C24: the sequence get_completed_investigations returns is in
\* non-decreasing order of completed_at, whatever order the source returns
\* its records in.
C24_ReturnedInCompletionOrder ==
    \A j, k \in 1..Len(completed_investigations) :
        j < k => completed_investigations[j].completed_at
                     <= completed_investigations[k].completed_at

\* ----- claims: the investigation store ------------------------------------
\* C25: routing several events of one identity (the same investigation of
\* the same client: duplicates, or a superseding event) leaves exactly one
\* record of that identity in the store, holding the last write; a
\* re-delivery adds no record for the correlator to count.
C25_OneRecordPerIdentity ==
    \A x, y \in table :
        x.investigation_id = y.investigation_id => x = y

\* ----- claims: the summary event ------------------------------------------
\* C26: the root_cause_brief of the summary event is at most 200 characters
\* long, also when redaction replaces matched text by longer placeholders.
C26_BriefAtMost200 ==
    f_event.formatted => TextLen(f_event.root_cause_brief) <= 200

\* C27: the summary's affected_resources is the first min(5, n) entries of
\* the investigation's n affected resources, in the order received.
C27_FirstFiveInOrder ==
    f_event.formatted
    => LET given == f_investigation.affected_resources
           kept == f_event.affected_resources
           m == IF Len(given) < 5 THEN Len(given) ELSE 5
       IN  /\ Len(kept) = m
           /\ \A i \in 1..m : kept[i] = given[i]

C27_Witness ==
    /\ f_event.formatted
    /\ Len(f_investigation.affected_resources) = 6
    /\ Len(f_event.affected_resources) = 5
    /\ f_investigation.affected_resources[1]
           # f_investigation.affected_resources[6]
    /\ f_investigation.affected_resources[1]
           # f_investigation.affected_resources[2]

\* C28: categorize_root_cause returns the first category, in the order
\* network_connectivity, resource_exhaustion, permissions_issue,
\* deployment_issue, dependency_failure, one of whose keywords occurs in the
\* text (case-insensitively, as a substring), even when a later category
\* matches too; 'unknown' when none occurs; it depends on the text only.
C28_FirstMatchingCategory ==
    f_event.formatted
    => LET found == KeywordsOf(f_investigation.root_cause)
           has(keywords) == found \cap keywords # {}
       IN  f_event.root_cause_category =
             IF has({"connection", "timeout", "network"})
             THEN "network_connectivity"
             ELSE IF has({"memory", "cpu", "disk", "capacity"})
             THEN "resource_exhaustion"
             ELSE IF has({"permission", "access", "denied", "unauthorized"})
             THEN "permissions_issue"
             ELSE IF has({"deployment", "version", "rollout"})
             THEN "deployment_issue"
             ELSE IF has({"dependency", "service", "downstream"})
             THEN "dependency_failure"
             ELSE "unknown"

C28_Witness ==
    /\ f_event.formatted
    /\ Len(f_investigation.root_cause) = 2
    /\ f_investigation.root_cause[1].word = "downstream"
    /\ f_investigation.root_cause[2].word = "Timeout"
    /\ f_event.root_cause_category = "network_connectivity"

\* C29: extract_resource_types returns the duplicate-free set of upper-cased
\* service segments (the third) of the resources that are strings starting
\* with 'arn:' and have at least 6 segments; any other resource contributes
\* nothing and raises nothing.
C29_ServiceOfWellFormedArns ==
    f_event.formatted
    => LET given == f_investigation.affected_resources
           arn(i) == /\ given[i].is_str
                     /\ Len(given[i].parts) >= 6
                     /\ given[i].parts[1] = "arn"
           has(service) ==
               \E i \in 1..Len(given) : arn(i) /\ given[i].parts[3] = service
       IN  /\ f_event.resource_types \subseteq {"LAMBDA", "S3"}
           /\ "LAMBDA" \in f_event.resource_types <=> has("lambda")
           /\ "S3" \in f_event.resource_types <=> has("s3")

C29_Witness ==
    /\ f_event.formatted
    /\ f_investigation.affected_resources =
           <<[is_str |-> TRUE,
              parts |-> <<"arn", "aws", "lambda", "us-east-1", "111122223333",
                          "function", "foo">>]>>
    /\ f_event.resource_types = {"LAMBDA"}

\* ----- claims: the correlator's window -----------------------------------
\* C30: query_recent_investigations returns all the store's records, and
\* only those, whose timestamp is at or after now minus 24 hours: a record
\* exactly at the cutoff is included, an older one is never counted, and no
\* record inside the window is omitted.
C30_ExactlyTheWindow ==
    ScanReturned
    => recent_investigations
           = {it \in tableAtStart : it.timestamp >= cutoff_time}

\* ----- claims: code fences around the classifier's answer -----------------
\* C31: a classifier response wrapped in a code fence is parsed to the same
\* analysis as the same JSON text without the fence, whether or not the
\* opening marker carries a language tag: a fenced object that reports
\* patterns gives patterns_detected = true without an error marker, a fenced
\* object that reports none gives patterns_detected = false without one.
C31_FencedParsesAsBare ==
    ( /\ Len(response) = 3
      /\ response[1] \in {"fence", "fence_json"}
      /\ response[3] = "fence"
      /\ response[2] \in {"object_true", "object_false"} )
    => /\ analysis.kind = "object"
       /\ ~analysis.error
       /\ analysis.patterns_detected =
              (IF response[2] = "object_true" THEN "true" ELSE "false")

\* ----- claims: one invocation per delivered event -------------------------
\* C34: one CRITICAL or HIGH event delivered by the central bus causes
\* exactly one router invocation, started or still waiting, so the store is
\* written once and no channel is notified twice for it.
C34_OneRouterInvocationPerHighEvent ==
    ( /\ Len(busEvents) = 1
      /\ busEvents[1].detail.investigation_id # 0
      /\ busEvents[1].detail.severity \in {"CRITICAL", "HIGH"} )
    => routed + Len(routerInbox) = 1

FinishedPasses ==
    IF cpc = "idle" /\ cresult # "none"
    THEN Append(passes,
                [investigation_id |-> cdetail.investigation_id,
                 result |-> cresult,
                 classified |->
                     \E i \in 1..Len(ccalls) : ccalls[i].op = "invoke_model"])
    ELSE passes

\* C32: once three events with distinct identities have been published
\* inside the window and every router and correlator invocation they
\* triggered has finished, with every store write and every scan having
\* succeeded, at least one of the correlation passes has called the
\* classifier, however the writes and the scans were interleaved.
C32_SomePassClassifies ==
    ( /\ Cardinality({busEvents[i].detail.investigation_id :
                          i \in 1..Len(busEvents)} \ {0}) >= 3
      /\ routerInbox = <<>>
      /\ correlatorInbox = <<>>
      /\ rpc = "idle"
      /\ cpc = "idle"
      /\ Cardinality({it.investigation_id : it \in table}) >= 3
      /\ \A i \in 1..Len(FinishedPasses) :
             FinishedPasses[i].result \in {"ok", "insufficient_data"} )
    => \E i \in 1..Len(FinishedPasses) : FinishedPasses[i].classified

\* C35: an event that carries no investigation_id is rejected before any
\* side effect: the router raises without writing to the store or notifying
\* a channel, the correlator raises without scanning the store, calling the
\* classifier or sending an alert, and the store is left as it was.
C35_MissingIdRejectedFirst ==
    /\ []( (rresult # "none" /\ detail.investigation_id = 0)
           => /\ rpc = "idle"
              /\ rresult = "raised"
              /\ calls = <<>>
              /\ actions_taken = <<>> )
    /\ []( (cresult # "none" /\ cdetail.investigation_id = 0)
           => /\ cpc = "idle"
              /\ cresult = "raised"
              /\ ccalls = <<>>
              /\ recent_investigations = {} )
    /\ [][ (detail'.investigation_id = 0 /\ cdetail'.investigation_id = 0)
           => table' = table ]_vars

C35_Witness ==
    /\ rresult = "raised"
    /\ detail.investigation_id = 0
    /\ detail.severity = "CRITICAL"
    /\ calls = <<>>
    /\ cresult = "raised"
    /\ cdetail.investigation_id = 0
    /\ ccalls = <<>>
    /\ Cardinality(table) >= 3

====
